---- MODULE Spec2Model ----
(***************************************************************************)
(* Dual-mode rate limiter of SplitStream (api/rateLimiter.js): the gate    *)
(* middleware, its in-memory and Redis-backed counters, the lazy backend   *)
(* selection and the routes of the server that are mounted behind it.      *)
(*                                                                         *)
(* Strings that the code inspects character by character (header values,  *)
(* IPs, environment values) are sequences of one-character strings.        *)
(* The clock is Date.now() measured from an instant that is a multiple of  *)
(* 60000 ms, so that (now % 60000) and floor(now / 1000) keep their        *)
(* meaning while the values stay small.                                    *)
(***************************************************************************)
EXTENDS Integers, Sequences, FiniteSets, TLC

\* ------------------------------------------------------------------ bounds
MaxTicks == 1       \* clock advances per behaviour
MaxRequests == 3    \* calls of the gate and of getRateLimitStatus per behaviour
MaxInFlight == 2    \* requests inside the gate at the same time
MaxTextLen == 3     \* length of the strings given to the identity functions
MaxHeight == 5      \* height in pixels of the images given to splitImageApi

\* ------------------------------------------------------- program constants
RATE_LIMIT_WINDOW == 60 * 60 * 1000
PROCESSING_DEFAULT == 10
HEALTH_DEFAULT == 100
REDIS_TTL_SECONDS == 3600
MS_PER_SECOND == 1000
MINUTE_MS == 60000
STATUS_TOO_MANY == 429
STATUS_BAD_REQUEST == 400
MAX_CHUNK_HEIGHT == 10000

\* clock steps: a whole window, and a whole window and a millisecond (from
\* the start of a window: to the instant it resets, and past it)
TimeSteps == {RATE_LIMIT_WINDOW, RATE_LIMIT_WINDOW + 1}

\* ------------------------------------------------------------ JS values
\* undefined / null / a missing property
Absent == [kind |-> "absent", val |-> <<>>]
Str(s) == [kind |-> "string", val |-> s]
\* a header value that is not a string (it has no split method)
NonString == [kind |-> "object", val |-> <<>>]

\* JS truthiness of a value that is undefined, a string or an object
Truthy(v) == \/ v.kind = "object"
             \/ v.kind = "string" /\ v.val # <<>>

WhiteSpace == {" "}
DigitChars == {"0", "1", "2", "3", "4", "5", "6", "7", "8", "9"}
DigitVal(c) == CASE c = "0" -> 0 [] c = "1" -> 1 [] c = "2" -> 2 [] c = "3" -> 3
                 [] c = "4" -> 4 [] c = "5" -> 5 [] c = "6" -> 6 [] c = "7" -> 7
                 [] c = "8" -> 8 [] c = "9" -> 9

RECURSIVE TrimStart(_)
TrimStart(s) == IF s # <<>> /\ Head(s) \in WhiteSpace THEN TrimStart(Tail(s)) ELSE s

RECURSIVE TrimEnd(_)
TrimEnd(s) == IF s # <<>> /\ s[Len(s)] \in WhiteSpace
              THEN TrimEnd(SubSeq(s, 1, Len(s) - 1)) ELSE s

\* String.prototype.trim
Trim(s) == TrimEnd(TrimStart(s))

\* s.split(',')[0]: the part of s before its first comma
RECURSIVE SplitFirst(_)
SplitFirst(s) == IF s = <<>> \/ Head(s) = "," THEN <<>>
                 ELSE <<Head(s)>> \o SplitFirst(Tail(s))

\* the longest prefix of decimal digits of s, as a number (acc so far)
RECURSIVE DigitsPrefix(_, _)
DigitsPrefix(s, acc) == IF s # <<>> /\ Head(s) \in DigitChars
                        THEN DigitsPrefix(Tail(s), acc * 10 + DigitVal(Head(s)))
                        ELSE acc

\* parseInt(v, 10): leading white space, an optional sign, then digits;
\* NaN when no digit follows (also for undefined)
ParseInt(v) ==
  IF v.kind # "string" THEN [nan |-> TRUE, val |-> 0]
  ELSE LET t == TrimStart(v.val)
           signed == t # <<>> /\ Head(t) \in {"-", "+"}
           body == IF signed THEN Tail(t) ELSE t
           mag == DigitsPrefix(body, 0)
       IN IF body = <<>> \/ Head(body) \notin DigitChars
          THEN [nan |-> TRUE, val |-> 0]
          ELSE [nan |-> FALSE, val |-> IF signed /\ Head(t) = "-" THEN 0 - mag ELSE mag]

\* parseInt(v, 10) || dflt: NaN and 0 are falsy
ParseLimit(v, dflt) == LET p == ParseInt(v)
                       IN IF p.nan \/ p.val = 0 THEN dflt ELSE p.val

\* Math.ceil(x / d) for d > 0
CeilDiv(x, d) == 0 - ((0 - x) \div d)
Max(a, b) == IF a > b THEN a ELSE b
Min(a, b) == IF a < b THEN a ELSE b

\* ------------------------------------------------------- client identity
NoIP == [threw |-> TRUE, ip |-> <<>>]

\* a resolver that keeps the whitespace around the header entry
extractClientIPUntrimmed(req) ==
  IF Truthy(req.xff)
  THEN IF req.xff.kind = "string"
       THEN [threw |-> FALSE, ip |-> SplitFirst(req.xff.val)]
       ELSE NoIP
  ELSE IF Truthy(req.ip) THEN [threw |-> FALSE, ip |-> req.ip.val]
  ELSE IF Truthy(req.remoteAddress) THEN [threw |-> FALSE, ip |-> req.remoteAddress.val]
  ELSE [threw |-> FALSE, ip |-> <<"u", "n", "k", "n", "o", "w", "n">>]
\* extractClientIP(req): a thrown TypeError is reported in the threw field
extractClientIP(req) ==
  IF Truthy(req.xff)
  THEN IF req.xff.kind = "string"
       THEN [threw |-> FALSE, ip |-> Trim(SplitFirst(req.xff.val))]
       ELSE NoIP
  ELSE IF Truthy(req.ip) THEN [threw |-> FALSE, ip |-> req.ip.val]
  ELSE IF Truthy(req.remoteAddress) THEN [threw |-> FALSE, ip |-> req.remoteAddress.val]
  ELSE [threw |-> FALSE, ip |-> <<"u", "n", "k", "n", "o", "w", "n">>]

\* a sanitizer that replaces the dots only
sanitizeIPDotsOnly(ip) == [i \in 1..Len(ip) |-> IF ip[i] = "." THEN "-" ELSE ip[i]]
\* sanitizeIP(ip): ip.replace(/[:.]/g, '-')
sanitizeIP(ip) == [i \in 1..Len(ip) |-> IF ip[i] \in {":", "."} THEN "-" ELSE ip[i]]


\* a key that leaves the client out
LimiterKeyNoIP(limiterType, clientIP) == <<"ratelimit", ":", limiterType, ":">>

\* a key that leaves the limiter type out
LimiterKeyNoType(limiterType, clientIP) == <<"ratelimit", ":">> \o clientIP
\* `ratelimit:${limiterType}:${clientIP}`; the two literals are one token each
LimiterKey(limiterType, clientIP) == <<"ratelimit", ":", limiterType, ":">> \o clientIP
RedisKey(limiterType, clientIP) == LimiterKey(limiterType, sanitizeIP(clientIP))

\* ------------------------------------------------------------ decisions
\* the object returned by the two check functions; retryAfter is <<>> when
\* the property is not set
Result(allowed, remaining, resetTime, retryAfter) ==
  [allowed |-> allowed, remaining |-> remaining, resetTime |-> resetTime,
   retryAfter |-> retryAfter]


\* an expiry test that keeps a stale entry for a second window
WindowExpiredLate(t, resetTime) == t > resetTime + RATE_LIMIT_WINDOW
\* an in-memory entry is stale: now > limiter.resetTime
WindowExpired(t, resetTime) == t > resetTime


\* a comparison that gives up one request of the quota
LimitExceededEarly(count, maxRequests) == count + 1 >= maxRequests
\* the quota of the in-memory window is used up: limiter.count >= maxRequests
LimitExceeded(count, maxRequests) == count >= maxRequests

\* retry hint of the in-memory backend
MemoryRetryAfter(resetTime, t) == CeilDiv(resetTime - t, MS_PER_SECOND)

\* an in-memory check that counts the rejected requests as well
checkInMemoryRateLimitCountsDenied(m, clientIP, limiterType, t, maxRequests) ==
  LET limiterKey == LimiterKey(limiterType, clientIP) IN
  IF limiterKey \notin DOMAIN m
  THEN [map |-> (limiterKey :> [count |-> 1, resetTime |-> t + RATE_LIMIT_WINDOW]) @@ m,
        result |-> Result(TRUE, maxRequests - 1, t + RATE_LIMIT_WINDOW, <<>>)]
  ELSE LET limiter == m[limiterKey] IN
       IF WindowExpired(t, limiter.resetTime)
       THEN [map |-> [m EXCEPT ![limiterKey] =
                          [count |-> 1, resetTime |-> t + RATE_LIMIT_WINDOW]],
             result |-> Result(TRUE, maxRequests - 1, t + RATE_LIMIT_WINDOW, <<>>)]
       ELSE IF LimitExceeded(limiter.count, maxRequests)
       THEN [map |-> [m EXCEPT ![limiterKey].count = @ + 1],
             result |-> Result(FALSE, 0, limiter.resetTime,
                               <<MemoryRetryAfter(limiter.resetTime, t)>>)]
       ELSE [map |-> [m EXCEPT ![limiterKey].count = @ + 1],
             result |-> Result(TRUE, maxRequests - (limiter.count + 1),
                               limiter.resetTime, <<>>)]
\* checkInMemoryRateLimit(clientIP, limiterType) at Date.now() = t, on the map
\* m with the limit maxRequests: the new map and the returned object
checkInMemoryRateLimit(m, clientIP, limiterType, t, maxRequests) ==
  LET limiterKey == LimiterKey(limiterType, clientIP) IN
  IF limiterKey \notin DOMAIN m
  THEN [map |-> (limiterKey :> [count |-> 1, resetTime |-> t + RATE_LIMIT_WINDOW]) @@ m,
        result |-> Result(TRUE, maxRequests - 1, t + RATE_LIMIT_WINDOW, <<>>)]
  ELSE LET limiter == m[limiterKey] IN
       IF WindowExpired(t, limiter.resetTime)
       THEN [map |-> [m EXCEPT ![limiterKey] =
                          [count |-> 1, resetTime |-> t + RATE_LIMIT_WINDOW]],
             result |-> Result(TRUE, maxRequests - 1, t + RATE_LIMIT_WINDOW, <<>>)]
       ELSE IF LimitExceeded(limiter.count, maxRequests)
       THEN [map |-> m,
             result |-> Result(FALSE, 0, limiter.resetTime,
                               <<MemoryRetryAfter(limiter.resetTime, t)>>)]
       ELSE [map |-> [m EXCEPT ![limiterKey].count = @ + 1],
             result |-> Result(TRUE, maxRequests - (limiter.count + 1),
                               limiter.resetTime, <<>>)]

\* ------------------------------------------------------- the remote store
\* MockRedisClient: an entry is [value, expiresAt], expiresAt <<>> for null
RedisExpired(store, key, t) ==
  /\ key \in DOMAIN store
  /\ store[key].expiresAt # <<>>
  /\ store[key].expiresAt[1] # 0
  /\ store[key].expiresAt[1] < t

\* incr(key) at Date.now() = t: the new store and the returned number
RedisIncr(store, key, t) ==
  IF RedisExpired(store, key, t)
  THEN [store |-> [store EXCEPT ![key] = [value |-> 1, expiresAt |-> <<>>]],
        value |-> 1]
  ELSE LET currentValue == IF key \in DOMAIN store THEN store[key].value ELSE 0
           kept == IF key \in DOMAIN store /\ store[key].expiresAt # <<>>
                      /\ store[key].expiresAt[1] # 0
                   THEN store[key].expiresAt ELSE <<>>
       IN [store |-> (key :> [value |-> currentValue + 1, expiresAt |-> kept]) @@ store,
           value |-> currentValue + 1]

\* expire(key, seconds) at Date.now() = t
RedisExpire(store, key, seconds, t) ==
  IF key \notin DOMAIN store THEN store
  ELSE [store EXCEPT ![key].expiresAt = <<t + seconds * MS_PER_SECOND>>]

\* an expiry that is set after every increment
NeedsExpireAlways(count) == TRUE
\* the command checkRedisRateLimit sends after the increment returned count:
\* the expiry is set when this increment created the key
NeedsExpire(count) == count = 1

\* the remote quota is used up: count > maxRequests
RedisLimitExceeded(count, maxRequests) == count > maxRequests

\* retry hint of the remote backend at Date.now() = t
RedisRetryAfter(t) == 60 - ((t % MINUTE_MS) \div MS_PER_SECOND)


\* a remote decision whose remaining count is one too high
RedisDecisionOffByOne(count, maxRequests, t0, t) ==
  IF count > maxRequests
  THEN [allowed |-> FALSE, remaining |-> 0, resetTime |-> t0 + RATE_LIMIT_WINDOW,
        retryAfter |-> <<60 - ((t % MINUTE_MS) \div MS_PER_SECOND)>>]
  ELSE [allowed |-> TRUE, remaining |-> maxRequests - count + 1,
        resetTime |-> t0 + RATE_LIMIT_WINDOW, retryAfter |-> <<>>]
\* the object checkRedisRateLimit returns for the count the increment gave;
\* t0 is the now of its first line, t the Date.now() of the retry hint
RedisDecision(count, maxRequests, t0, t) ==
  LET remaining == Max(0, maxRequests - count)
      resetTime == t0 + RATE_LIMIT_WINDOW
  IN IF RedisLimitExceeded(count, maxRequests)
     THEN Result(FALSE, 0, resetTime, <<RedisRetryAfter(t)>>)
     ELSE Result(TRUE, remaining, resetTime, <<>>)

\* ------------------------------------------------------------------ state
VARIABLES
  env,                     \* process.env
  PROCESSING_RATE_LIMIT_MAX_REQUESTS,    \* the two limits, computed once when
  HEALTH_CHECK_RATE_LIMIT_MAX_REQUESTS,  \* the module is loaded
  traffic,                 \* the kinds of request the clients send
  concurrency,             \* the number of requests the clients keep in flight
  now, ticks,              \* Date.now() and the number of clock advances
  redisClient,             \* TRUE when redisClient is not null
  useRedis,
  rateLimiterInitialized,
  inMemoryRateLimitMap,    \* limiterKey -> [count, resetTime]
  redisStore,              \* redisKey -> [value, expiresAt]
  slots,                   \* the requests suspended inside the gate
  started,                 \* calls made so far: requests that entered the gate, status calls
  resp,                    \* what the gate did with the last request it finished
  gLocal, gRemote,         \* history: the windows of each counter
  isoId, isoNs,            \* history: the stores fed by one identity / one namespace only
  gGate,                   \* history: the clock windows of each identity and namespace
  remote,                  \* history: the calls made to the remote store
  status,                  \* what the last getRateLimitStatus() call gave
  applied                  \* the last application of a function of the module on its own

modeVars == <<redisClient, useRedis, rateLimiterInitialized>>
storeVars == <<inMemoryRateLimitMap, redisStore>>
histVars == <<gLocal, gRemote, isoId, isoNs, gGate>>
cfgVars == <<env, PROCESSING_RATE_LIMIT_MAX_REQUESTS, HEALTH_CHECK_RATE_LIMIT_MAX_REQUESTS,
            traffic, concurrency>>
vars == <<env, PROCESSING_RATE_LIMIT_MAX_REQUESTS, HEALTH_CHECK_RATE_LIMIT_MAX_REQUESTS, traffic,
          concurrency, now, ticks, redisClient, useRedis, rateLimiterInitialized,
          inMemoryRateLimitMap, redisStore, slots, started, resp,
          gLocal, gRemote, isoId, isoNs, gGate, remote, status, applied>>

\* lines 18 and 21
ProcessingLimitOf(e) == ParseLimit(e.RATE_LIMIT_PER_HOUR, PROCESSING_DEFAULT)
HealthLimitOf(e) == ParseLimit(e.HEALTH_CHECK_RATE_LIMIT_PER_HOUR, HEALTH_DEFAULT)

\* maxRequests of a limiter type
MaxRequestsOf(limiterType) ==
  IF limiterType = "health" THEN HEALTH_CHECK_RATE_LIMIT_MAX_REQUESTS
  ELSE PROCESSING_RATE_LIMIT_MAX_REQUESTS

\* a test of the URL alone
RedisConfiguredUrlOnly == env.UPSTASH_REDIS_REST_URL
\* process.env.UPSTASH_REDIS_REST_URL && process.env.UPSTASH_REDIS_REST_TOKEN
RedisConfigured == env.UPSTASH_REDIS_REST_URL /\ env.UPSTASH_REDIS_REST_TOKEN

\* the limiter each route is mounted behind
LimiterTypeOf(route) == IF route = "health" THEN "health" ELSE "processing"

Routes == {"health", "ui", "v1"}
Slots == 1..MaxInFlight
IdleSlot == [pc |-> "idle", req |-> <<>>, ip |-> <<>>, now0 |-> 0,
             count |-> 0, cId |-> 0, cNs |-> 0]

\* ------------------------------------------------------------ the inputs
Unset == Absent
LimitSettings ==
  { [p |-> Str(<<"1">>), h |-> Str(<<"2">>)],
    [p |-> Str(<<"2">>), h |-> Str(<<"1">>)],
    [p |-> Str(<<"-", "1">>), h |-> Str(<<"a">>)],
    [p |-> Unset, h |-> Unset] }
RedisSettings == { <<TRUE, TRUE>>, <<TRUE, FALSE>>, <<FALSE, FALSE>> }
ServerKey == Str(<<"k">>)
Envs == { [RATE_LIMIT_PER_HOUR |-> l.p, HEALTH_CHECK_RATE_LIMIT_PER_HOUR |-> l.h,
           UPSTASH_REDIS_REST_URL |-> r[1], UPSTASH_REDIS_REST_TOKEN |-> r[2],
           API_KEY |-> ServerKey] :
          l \in LimitSettings, r \in RedisSettings }

\* the settings used with several clients, and with several routes
EnvsClients == { e \in Envs : /\ e.RATE_LIMIT_PER_HOUR = Str(<<"1">>)
                              /\ e.UPSTASH_REDIS_REST_URL = e.UPSTASH_REDIS_REST_TOKEN }
\* the settings used with the authenticated route: limit 1 or 2, with and
\* without Redis, API_KEY set and unset
EnvsAuth == { [e EXCEPT !.API_KEY = k] :
              e \in { x \in Envs : /\ x.RATE_LIMIT_PER_HOUR \in {Str(<<"1">>), Str(<<"2">>)}
                                   /\ x.UPSTASH_REDIS_REST_URL = x.UPSTASH_REDIS_REST_TOKEN },
              k \in {Unset, ServerKey} }
EnvsRoutes == { e \in Envs : /\ e.RATE_LIMIT_PER_HOUR \in {Str(<<"1">>), Str(<<"-", "1">>)}
                             /\ e.UPSTASH_REDIS_REST_URL = e.UPSTASH_REDIS_REST_TOKEN }

\* a request: its route, the X-Forwarded-For header, req.ip, the address of
\* the socket, and the API_KEY header
Req(route, xff, ip, remoteAddress) ==
  [route |-> route, xff |-> xff, ip |-> ip, remoteAddress |-> remoteAddress,
   apiKey |-> Absent]
WithApiKey(req, k) == [req EXCEPT !.apiKey = k]
\* three clients: "1.2" behind a proxy chain, "1-2", and one without a
\* forwarding header; and a request whose header value is not a string
HdrA == Str(<<"1", ".", "2", ",", " ", "9">>)
HdrB == Str(<<" ", "1", "-", "2">>)
PeerC == Str(<<"7">>)
ReqA(route) == Req(route, HdrA, PeerC, Absent)
ReqB(route) == Req(route, HdrB, PeerC, Absent)
ReqC(route) == Req(route, Absent, PeerC, Absent)
ReqX(route) == Req(route, NonString, PeerC, Absent)

\* the traffic mixes
OneClient == {ReqA("ui"), ReqX("ui")}
ThreeClients == {ReqA("ui"), ReqB("ui"), ReqC("ui")}
ThreeRoutes == {ReqA("health"), ReqA("ui"), ReqA("v1")}
\* one client of the authenticated route: with the key of the server, with
\* another key, without a key
KeyedClients == {WithApiKey(ReqA("v1"), ServerKey), WithApiKey(ReqA("v1"), Str(<<"x">>)),
                 ReqA("v1")}

NoResp == [kind |-> "none"]
NoStatus == [kind |-> "none"]
NotApplied == [fn |-> "none"]
\* getRateLimitStatus() resolved with {error: message}, and rejected
StatusError == [kind |-> "resolved", value |-> [error |-> "RATE_LIMIT_MAX_REQUESTS is not defined"]]
StatusRejected == [kind |-> "rejected"]

\* no call has been made to the remote store: setups counts the imports of
\* the client library, pings the probes sent, errors the rejected incr and
\* expire commands; issued tells that a command (incr, expire, get) was sent,
\* succeeded that a call to the store has resolved
NoCalls == [setups |-> 0, pings |-> 0, probe |-> "none", issued |-> FALSE,
            errors |-> 0, succeeded |-> FALSE]
\* a rejected incr or expire has set useRedis to false
DowngradedIn(lg) == lg.errors > 0

InitFor(tr, envs, c) ==
  /\ env \in envs
  /\ concurrency = c
  /\ PROCESSING_RATE_LIMIT_MAX_REQUESTS = ProcessingLimitOf(env)
  /\ HEALTH_CHECK_RATE_LIMIT_MAX_REQUESTS = HealthLimitOf(env)
  /\ traffic = tr
  /\ now = 0 /\ ticks = 0
  /\ redisClient = FALSE /\ useRedis = FALSE /\ rateLimiterInitialized = FALSE
  /\ inMemoryRateLimitMap = <<>> /\ redisStore = <<>>
  /\ slots = [s \in Slots |-> IdleSlot]
  /\ started = 0
  /\ resp = NoResp
  /\ gLocal = <<>> /\ gRemote = <<>> /\ isoId = <<>> /\ isoNs = <<>>
  /\ gGate = <<>> /\ remote = NoCalls /\ status = NoStatus
  /\ applied = NotApplied


\* a gate that answers 429 without returning, and so calls next() as well
GateOutcomeNoReturn(result, maxRequests) ==
  LET base == ("X-RateLimit-Limit" :> maxRequests)
              @@ ("X-RateLimit-Remaining" :> Max(0, result.remaining))
              @@ ("X-RateLimit-Reset" :> (result.resetTime \div MS_PER_SECOND))
  IN IF ~result.allowed
     THEN [headers |-> ("Retry-After" :> result.retryAfter[1]) @@ base,
           status |-> STATUS_TOO_MANY,
           body |-> <<[error |-> "Too many requests. Please try again later.",
                       retryAfter |-> result.retryAfter[1]]>>,
           nextCalls |-> 1]
     ELSE [headers |-> base, status |-> 0, body |-> <<>>, nextCalls |-> 1]
\* ------------------------------------------------------- the gate's answer
\* lines 199-214 of createRateLimiter: the headers, and either the 429
\* response or the call of next()
GateOutcome(result, maxRequests) ==
  LET base == ("X-RateLimit-Limit" :> maxRequests)
              @@ ("X-RateLimit-Remaining" :> Max(0, result.remaining))
              @@ ("X-RateLimit-Reset" :> (result.resetTime \div MS_PER_SECOND))
  IN IF ~result.allowed
     THEN [headers |-> ("Retry-After" :> result.retryAfter[1]) @@ base,
           status |-> STATUS_TOO_MANY,
           body |-> <<[error |-> "Too many requests. Please try again later.",
                       retryAfter |-> result.retryAfter[1]]>>,
           nextCalls |-> 0]
     ELSE [headers |-> base, status |-> 0, body |-> <<>>, nextCalls |-> 1]

\* a catch block that answers 500 instead of forwarding
FailOpenOutcomeBlocks(maxRequests) ==
  [headers |-> ("X-RateLimit-Limit" :> maxRequests), status |-> 500, body |-> <<>>,
   nextCalls |-> 0]
\* the catch block of createRateLimiter
FailOpenOutcome(maxRequests) ==
  [headers |-> ("X-RateLimit-Limit" :> maxRequests), status |-> 0, body |-> <<>>,
   nextCalls |-> 1]

\* ------------------------------------------------------------- histories
EmptyWorld == [mem |-> <<>>, redis |-> <<>>]
WorldOf(f, k) == IF k \in DOMAIN f THEN f[k] ELSE EmptyWorld
Put(f, k, v) == (k :> v) @@ f

\* windows of the in-memory counter of <<limiterType, ip>>, told from the
\* clock only: a window opens with the first request and a request later
\* than start + RATE_LIMIT_WINDOW opens the next one
LocalWindowAfter(limiterType, ip, t, allowed) ==
  LET k == <<limiterType, ip>>
      add == IF allowed THEN 1 ELSE 0
  IN IF k \notin DOMAIN gLocal
     THEN [start |-> t, ord |-> 1, allowed |-> add, win |-> 1, prevOrd |-> 0]
     ELSE LET g == gLocal[k] IN
          IF t > g.start + RATE_LIMIT_WINDOW
          THEN [start |-> t, ord |-> 1, allowed |-> add, win |-> g.win + 1,
                prevOrd |-> g.ord]
          ELSE [g EXCEPT !.ord = @ + 1, !.allowed = @ + add]

\* windows of a remote counter: the increment that returns 1 opens one
RemoteWindowAtIncr(key, count) ==
  IF key \notin DOMAIN gRemote
  THEN [allowed |-> 0, win |-> 1, prevOrd |-> 0]
  ELSE IF count = 1
  THEN [allowed |-> 0, win |-> gRemote[key].win + 1, prevOrd |-> redisStore[key].value]
  ELSE gRemote[key]

\* windows of an identity in a namespace, told from the clock only and
\* whatever backend counted: a decision at start + RATE_LIMIT_WINDOW or later
\* opens the next window
GateWindowAfter(limiterType, ip, t, allowed, backend) ==
  LET k == <<limiterType, ip>>
      add == IF allowed THEN 1 ELSE 0
  IN IF k \in DOMAIN gGate /\ t < gGate[k].start + RATE_LIMIT_WINDOW
     THEN [gGate[k] EXCEPT !.allowed = @ + add, !.backends = @ \cup {backend}]
     ELSE [start |-> t, allowed |-> add, backends |-> {backend}]

\* -------------------------------------------------- behind the gate
\* what runs after the gate when it called next()
NotRun == [ran |-> "none", status |-> 0]
Handler == [ran |-> "handler", status |-> 0]
AuthAnswer(code) == [ran |-> "apiKeyAuth", status |-> code]

\* apiKeyAuth(req, res, next) of the server: 500 without a configured key,
\* 401 for a missing or different key, else next()
apiKeyAuth(req) ==
  IF ~Truthy(env.API_KEY) THEN AuthAnswer(500)
  ELSE IF ~Truthy(req.apiKey) \/ req.apiKey # env.API_KEY THEN AuthAnswer(401)
  ELSE Handler

\* a chain in which the key is checked whatever the gate answered
DownstreamUngated(r, out) ==
  IF r.route = "v1" THEN apiKeyAuth(r) ELSE Handler
\* the middleware chain of the route after the gate: nothing runs unless the
\* gate called next(); /api/v1/process checks the key before its handler
Downstream(r, out) ==
  IF out.nextCalls = 0 THEN NotRun
  ELSE IF r.route = "v1" THEN apiKeyAuth(r)
  ELSE Handler

Decided(r, ip, backend, result, rId, rNs, g, t0) ==
  [kind |-> "decided", route |-> r.route, apiKey |-> r.apiKey,
   downstream |-> Downstream(r, GateOutcome(result, MaxRequestsOf(LimiterTypeOf(r.route)))), limiterType |-> LimiterTypeOf(r.route),
   ip |-> ip, backend |-> backend, limit |-> MaxRequestsOf(LimiterTypeOf(r.route)),
   at |-> now, at0 |-> t0, result |-> result, resultId |-> rId, resultNs |-> rNs,
   out |-> GateOutcome(result, MaxRequestsOf(LimiterTypeOf(r.route))),
   ord |-> g.ord, win |-> g.win, prevOrd |-> g.prevOrd, allowedInWindow |-> g.allowed]

FailedOpen(r) ==
  [kind |-> "failopen", route |-> r.route, apiKey |-> r.apiKey,
   downstream |-> Downstream(r, FailOpenOutcome(MaxRequestsOf(LimiterTypeOf(r.route)))), limiterType |-> LimiterTypeOf(r.route),
   out |-> FailOpenOutcome(MaxRequestsOf(LimiterTypeOf(r.route)))]

\* ------------------------------------------------- the steps of the gate
\* line 196 and lines 199-214: the in-memory check and the answer
LocalFinish(s, r, ip, lg) ==
  LET lt == LimiterTypeOf(r.route)
      mx == MaxRequestsOf(lt)
      real == checkInMemoryRateLimit(inMemoryRateLimitMap, ip, lt, now, mx)
      wi == WorldOf(isoId, ip)
      wn == WorldOf(isoNs, lt)
      si == checkInMemoryRateLimit(wi.mem, ip, lt, now, mx)
      sn == checkInMemoryRateLimit(wn.mem, ip, lt, now, mx)
      g == LocalWindowAfter(lt, ip, now, real.result.allowed)
  IN /\ inMemoryRateLimitMap' = real.map
     /\ isoId' = Put(isoId, ip, [wi EXCEPT !.mem = si.map])
     /\ isoNs' = Put(isoNs, lt, [wn EXCEPT !.mem = sn.map])
     /\ gLocal' = Put(gLocal, <<lt, ip>>, g)
     /\ gGate' = Put(gGate, <<lt, ip>>,
                     GateWindowAfter(lt, ip, now, real.result.allowed, "local"))
     /\ resp' = Decided(r, ip, "local", real.result, si.result, sn.result, g, now)
     /\ slots' = [slots EXCEPT ![s] = IdleSlot]
     /\ remote' = lg
     /\ UNCHANGED <<redisStore, gRemote>>

\* lines 215-221: an error thrown inside the try block
FailOpen(s, r, lg) ==
  /\ resp' = FailedOpen(r)
  /\ slots' = [slots EXCEPT ![s] = IdleSlot]
  /\ remote' = lg
  /\ UNCHANGED <<storeVars, histVars>>

\* lines 138-146: the request is suspended on redisClient.incr
StartRemote(s, r, ip, lg) ==
  /\ slots' = [slots EXCEPT ![s] = [IdleSlot EXCEPT !.pc = "incr", !.req = r,
                                                   !.ip = ip, !.now0 = now]]
  /\ remote' = [lg EXCEPT !.issued = TRUE]
  /\ UNCHANGED <<storeVars, histVars, resp>>

\* lines 190-197, with the values useRedis and redisClient have at that
\* point; lg is the record of the remote calls up to it
Lookup(s, r, ur, rc, lg) ==
  LET x == extractClientIP(r) IN
  IF x.threw THEN FailOpen(s, r, lg)
  ELSE IF ur /\ rc THEN StartRemote(s, r, x.ip, lg)
  ELSE LocalFinish(s, r, x.ip, lg)

\* lines 153-169 and 199-214: the remote decision for the counts the increment
\* returned (in the store and in the two single-source stores) and the
\* answer; store, wiRedis and wnRedis are the stores after the last command
\* of this request, g0 the window of the counter
RemoteFinish(s, count, cId, cNs, store, wiRedis, wnRedis, g0) ==
  LET sl == slots[s]
      r == sl.req
      lt == LimiterTypeOf(r.route)
      mx == MaxRequestsOf(lt)
      key == RedisKey(lt, sl.ip)
      result == RedisDecision(count, mx, sl.now0, now)
      g == [g0 EXCEPT !.allowed = @ + (IF result.allowed THEN 1 ELSE 0)]
      wi == WorldOf(isoId, sl.ip)
      wn == WorldOf(isoNs, lt)
  IN /\ redisStore' = store
     /\ isoId' = Put(isoId, sl.ip, [wi EXCEPT !.redis = wiRedis])
     /\ isoNs' = Put(isoNs, lt, [wn EXCEPT !.redis = wnRedis])
     /\ gRemote' = Put(gRemote, key, g)
     /\ gGate' = Put(gGate, <<lt, sl.ip>>,
                     GateWindowAfter(lt, sl.ip, now, result.allowed, "remote"))
     /\ remote' = [remote EXCEPT !.succeeded = TRUE]
     /\ resp' = Decided(r, sl.ip, "remote", result,
                        RedisDecision(cId, mx, sl.now0, now),
                        RedisDecision(cNs, mx, sl.now0, now),
                        [ord |-> count, win |-> g.win, prevOrd |-> g.prevOrd,
                         allowed |-> g.allowed], sl.now0)
     /\ slots' = [slots EXCEPT ![s] = IdleSlot]
     /\ UNCHANGED <<inMemoryRateLimitMap, gLocal>>

\* the expiry a single-source store gets when its own count asks for it
ShadowExpire(store, key, c) ==
  IF NeedsExpire(c) THEN RedisExpire(store, key, REDIS_TTL_SECONDS, now) ELSE store

\* ----------------------------------------------------------------- actions
FreeSlot(s) == /\ s <= concurrency
               /\ slots[s].pc = "idle"
               /\ \A q \in Slots : q < s => slots[q].pc # "idle"

\* a request enters the gate while rateLimiterInitialized is set
Arrive(s, r) ==
  /\ FreeSlot(s) /\ started < MaxRequests /\ r \in traffic
  /\ rateLimiterInitialized
  /\ started' = started + 1
  /\ Lookup(s, r, useRedis, redisClient, remote)
  /\ UNCHANGED <<cfgVars, applied, status, now, ticks, modeVars>>

\* the first request: initializeRedis() without Redis credentials
ArriveFirstLocal(s, r) ==
  /\ FreeSlot(s) /\ started < MaxRequests /\ r \in traffic
  /\ ~rateLimiterInitialized /\ ~RedisConfigured
  /\ rateLimiterInitialized' = TRUE
  /\ started' = started + 1
  /\ Lookup(s, r, useRedis, redisClient, remote)
  /\ UNCHANGED <<cfgVars, applied, status, now, ticks, redisClient, useRedis>>

\* an initializeRedis() that sets its flag only after the probe
ArriveFirstRemoteFlagLate(s, r) ==
  /\ FreeSlot(s) /\ started < MaxRequests /\ r \in traffic
  /\ ~rateLimiterInitialized /\ RedisConfigured
  /\ started' = started + 1
  /\ slots' = [slots EXCEPT ![s] = [IdleSlot EXCEPT !.pc = "import", !.req = r]]
  /\ remote' = [remote EXCEPT !.setups = @ + 1]
  /\ UNCHANGED <<cfgVars, applied, status, now, ticks, modeVars, storeVars, histVars, resp>>
\* the first request: initializeRedis() suspends on import('@upstash/redis')
ArriveFirstRemote(s, r) ==
  /\ FreeSlot(s) /\ started < MaxRequests /\ r \in traffic
  /\ ~rateLimiterInitialized /\ RedisConfigured
  /\ rateLimiterInitialized' = TRUE
  /\ started' = started + 1
  /\ slots' = [slots EXCEPT ![s] = [IdleSlot EXCEPT !.pc = "import", !.req = r]]
  /\ remote' = [remote EXCEPT !.setups = @ + 1]
  /\ UNCHANGED <<cfgVars, applied, status, now, ticks, redisClient, useRedis, storeVars, histVars,
                 resp>>

\* the import resolves and new Redis(...) is assigned; ping is sent
ImportOk(s) ==
  /\ slots[s].pc = "import"
  /\ redisClient' = TRUE
  /\ slots' = [slots EXCEPT ![s].pc = "ping"]
  /\ remote' = [remote EXCEPT !.pings = @ + 1]
  /\ UNCHANGED <<cfgVars, applied, status, now, ticks, useRedis, rateLimiterInitialized,
                 storeVars, histVars, resp, started>>

\* the import (or the constructor) throws: lines 54-57, then the lookup
ImportFail(s) ==
  /\ slots[s].pc = "import"
  /\ useRedis' = FALSE
  /\ Lookup(s, slots[s].req, FALSE, redisClient, [remote EXCEPT !.probe = "failed"])
  /\ UNCHANGED <<cfgVars, applied, status, now, ticks, redisClient, rateLimiterInitialized, started>>

\* ping resolves: useRedis = true, then the lookup
PingOk(s) ==
  /\ slots[s].pc = "ping"
  /\ useRedis' = TRUE
  /\ Lookup(s, slots[s].req, TRUE, redisClient,
            [remote EXCEPT !.probe = "ok", !.succeeded = TRUE])
  /\ UNCHANGED <<cfgVars, applied, status, now, ticks, redisClient, rateLimiterInitialized, started>>

\* a rejected ping that leaves initializeRedis() and reaches the catch block
\* of the gate
PingFailEscapes(s) ==
  /\ slots[s].pc = "ping"
  /\ useRedis' = FALSE
  /\ FailOpen(s, slots[s].req, [remote EXCEPT !.probe = "failed"])
  /\ UNCHANGED <<cfgVars, applied, status, now, ticks, redisClient, rateLimiterInitialized, started>>
\* ping rejects: lines 54-57, then the lookup
PingFail(s) ==
  /\ slots[s].pc = "ping"
  /\ useRedis' = FALSE
  /\ Lookup(s, slots[s].req, FALSE, redisClient, [remote EXCEPT !.probe = "failed"])
  /\ UNCHANGED <<cfgVars, applied, status, now, ticks, redisClient, rateLimiterInitialized, started>>

\* redisClient.incr resolves
IncrOk(s) ==
  LET sl == slots[s]
      lt == LimiterTypeOf(sl.req.route)
      key == RedisKey(lt, sl.ip)
      real == RedisIncr(redisStore, key, now)
      si == RedisIncr(WorldOf(isoId, sl.ip).redis, key, now)
      sn == RedisIncr(WorldOf(isoNs, lt).redis, key, now)
      g0 == RemoteWindowAtIncr(key, real.value)
  IN /\ sl.pc = "incr"
     /\ IF NeedsExpire(real.value)
        THEN /\ slots' = [slots EXCEPT ![s].pc = "expire", ![s].count = real.value,
                                       ![s].cId = si.value, ![s].cNs = sn.value]
             /\ redisStore' = real.store
             /\ isoId' = Put(isoId, sl.ip, [WorldOf(isoId, sl.ip) EXCEPT !.redis = si.store])
             /\ isoNs' = Put(isoNs, lt, [WorldOf(isoNs, lt) EXCEPT !.redis = sn.store])
             /\ gRemote' = Put(gRemote, key, g0)
             /\ remote' = [remote EXCEPT !.succeeded = TRUE]
             /\ UNCHANGED <<inMemoryRateLimitMap, gLocal, gGate, resp>>
        ELSE RemoteFinish(s, real.value, si.value, sn.value, real.store,
                          ShadowExpire(si.store, key, si.value),
                          ShadowExpire(sn.store, key, sn.value), g0)
     /\ UNCHANGED <<cfgVars, applied, status, now, ticks, modeVars, started>>

\* redisClient.expire resolves
ExpireOk(s) ==
  LET sl == slots[s]
      lt == LimiterTypeOf(sl.req.route)
      key == RedisKey(lt, sl.ip)
  IN /\ sl.pc = "expire"
     /\ RemoteFinish(s, sl.count, sl.cId, sl.cNs,
                     RedisExpire(redisStore, key, REDIS_TTL_SECONDS, now),
                     ShadowExpire(WorldOf(isoId, sl.ip).redis, key, sl.cId),
                     ShadowExpire(WorldOf(isoNs, lt).redis, key, sl.cNs),
                     gRemote[key])
     /\ UNCHANGED <<cfgVars, applied, status, now, ticks, modeVars, started>>

\* a rejected incr that checkRedisRateLimit does not catch: it reaches the
\* catch block of the gate
IncrFailEscapes(s) ==
  /\ slots[s].pc = "incr"
  /\ FailOpen(s, slots[s].req, [remote EXCEPT !.errors = @ + 1])
  /\ UNCHANGED <<cfgVars, applied, status, now, ticks, modeVars, started>>
\* redisClient.incr rejects: lines 170-175
IncrFail(s) ==
  /\ slots[s].pc = "incr"
  /\ useRedis' = FALSE
  /\ LocalFinish(s, slots[s].req, slots[s].ip, [remote EXCEPT !.errors = @ + 1])
  /\ UNCHANGED <<cfgVars, applied, status, now, ticks, redisClient, rateLimiterInitialized, started>>

\* a rejected expire after which useRedis is left as it was
ExpireFailKeepsRemote(s) ==
  /\ slots[s].pc = "expire"
  /\ LocalFinish(s, slots[s].req, slots[s].ip, [remote EXCEPT !.errors = @ + 1])
  /\ UNCHANGED <<cfgVars, applied, status, now, ticks, modeVars, started>>
\* redisClient.expire rejects: lines 170-175
ExpireFail(s) ==
  /\ slots[s].pc = "expire"
  /\ useRedis' = FALSE
  /\ LocalFinish(s, slots[s].req, slots[s].ip, [remote EXCEPT !.errors = @ + 1])
  /\ UNCHANGED <<cfgVars, applied, status, now, ticks, redisClient, rateLimiterInitialized, started>>

\* time passes
Tick(d) ==
  /\ ticks < MaxTicks
  /\ now' = now + d /\ ticks' = ticks + 1
  /\ UNCHANGED <<cfgVars, applied, status, remote, modeVars, storeVars, histVars, slots, started,
                 resp>>

\* the identities of the clients
ClientIPs == { extractClientIP(r).ip : r \in { q \in traffic : ~extractClientIP(q).threw } }

\* getRateLimitStatus(clientIP), lines 244-269. The module declares no
\* RATE_LIMIT_MAX_REQUESTS, so building the returned object throws a
\* ReferenceError: inside the try block of the Redis branch, after the get
\* command has resolved or rejected, where the catch returns {error}; in the
\* in-memory branch outside any try, so that the returned promise rejects
getRateLimitStatus(clientIP) ==
  /\ started < MaxRequests
  /\ started' = started + 1
  /\ IF useRedis /\ redisClient
     THEN /\ \E ok \in BOOLEAN :
               remote' = [remote EXCEPT !.issued = TRUE, !.succeeded = @ \/ ok]
          /\ status' = StatusError
     ELSE /\ remote' = remote
          /\ status' = StatusRejected
  /\ UNCHANGED <<cfgVars, applied, now, ticks, modeVars, storeVars, histVars, slots, resp>>

Next ==
  \/ \E s \in Slots, r \in traffic : Arrive(s, r)
  \/ \E s \in Slots, r \in traffic : ArriveFirstLocal(s, r)
  \/ \E s \in Slots, r \in traffic : ArriveFirstRemote(s, r)
  \/ \E s \in Slots : ImportOk(s)
  \/ \E s \in Slots : ImportFail(s)
  \/ \E s \in Slots : PingOk(s)
  \/ \E s \in Slots : PingFail(s)
  \/ \E s \in Slots : IncrOk(s)
  \/ \E s \in Slots : IncrFail(s)
  \/ \E s \in Slots : ExpireOk(s)
  \/ \E s \in Slots : ExpireFail(s)
  \/ \E d \in TimeSteps : Tick(d)
  \/ \E ip \in ClientIPs : getRateLimitStatus(ip)

\* clearAllLimits(), lines 234-236: the map is emptied; called at most once
\* in a behaviour, at any point of it
clearAllLimits ==
  /\ applied = NotApplied
  /\ applied' = [fn |-> "clearAllLimits", at |-> now]
  /\ inMemoryRateLimitMap' = <<>>
  /\ gLocal' = <<>>
  /\ isoId' = [k \in DOMAIN isoId |-> [isoId[k] EXCEPT !.mem = <<>>]]
  /\ isoNs' = [k \in DOMAIN isoNs |-> [isoNs[k] EXCEPT !.mem = <<>>]]
  /\ UNCHANGED <<cfgVars, status, now, ticks, modeVars, redisStore, gRemote, gGate, remote,
                 slots, started, resp>>

NextClear ==
  \/ Next
  \/ clearAllLimits

\* one client (and a malformed request) on one processing route, with
\* overlapping requests
Init == InitFor(OneClient, Envs, MaxInFlight)
Spec == Init /\ [][Next]_vars

\* three clients on one processing route, one request at a time
InitClients == InitFor(ThreeClients, EnvsClients, 1)
SpecClients == InitClients /\ [][Next]_vars

\* one client on the three gated routes, one request at a time
InitRoutes == InitFor(ThreeRoutes, EnvsRoutes, 1)
InitAuth == InitFor(KeyedClients, EnvsAuth, 1)
SpecAuth == InitAuth /\ [][Next]_vars
SpecRoutes == InitRoutes /\ [][Next]_vars

\* --------------------------------------- the identity functions on their own
\* the strings of at most n characters of cs
Strings(cs, n) == UNION { [1..k -> cs] : k \in 0..n }

\* the header of scenario D: "9.9.9.9, 10.0.0.1"
HeaderD == <<"9", ".", "9", ".", "9", ".", "9", ",", " ", "1", "0", ".", "0", ".", "0", ".", "1">>

\* requests as extractClientIP sees them: the forwarding header missing, not
\* a string, or a string of digits, commas and blanks; req.ip missing,
\* empty or set; the remote address of the socket missing or set
HeaderValues == {Absent, NonString, Str(HeaderD)}
                  \cup { Str(h) : h \in Strings({"9", ",", " "}, MaxTextLen) }
ResolverInputs ==
  { Req(r, h, i, a) : r \in {"ui"}, h \in HeaderValues,
                      i \in {Absent, Str(<<>>), Str(<<"7">>)},
                      a \in {Absent, Str(<<"8">>)} }

\* identities as sanitizeIP sees them
IdentityInputs == Strings({"1", ".", ":", "-"}, MaxTextLen)

progVars == <<cfgVars, status, now, ticks, modeVars, storeVars, histVars, remote, slots,
              started, resp>>

ApplyExtractClientIP(req) ==
  /\ applied' = [fn |-> "extractClientIP", arg |-> req, out |-> extractClientIP(req)]
  /\ UNCHANGED progVars

ApplySanitizeIP(ip) ==
  /\ applied' = [fn |-> "sanitizeIP", arg |-> ip, out |-> sanitizeIP(ip)]
  /\ UNCHANGED progVars

\* the key checkRedisRateLimit builds, lines 142-143
ApplyRedisKey(limiterType, ip) ==
  /\ applied' = [fn |-> "redisKey", arg |-> ip, limiterType |-> limiterType,
                 out |-> RedisKey(limiterType, ip)]
  /\ UNCHANGED progVars

\* the limits a process can run with
LimitValues == { ParseLimit(l.p, PROCESSING_DEFAULT) : l \in LimitSettings }
                 \cup { ParseLimit(l.h, HEALTH_DEFAULT) : l \in LimitSettings }

\* the times of the requests of a sequential trace that stays in the window
\* its first request opens at 0
WindowTraces ==
  { ts \in UNION { [1..n -> {0, RATE_LIMIT_WINDOW}] : n \in 1..MaxRequests } :
      \A i \in 1..(Len(ts) - 1) : ts[i] <= ts[i + 1] }

\* the results of checkInMemoryRateLimit for requests at the times ts, one
\* after the other, starting from the map m
RECURSIVE LocalTrace(_, _, _, _, _)
LocalTrace(m, clientIP, limiterType, ts, maxRequests) ==
  IF ts = <<>> THEN <<>>
  ELSE LET c == checkInMemoryRateLimit(m, clientIP, limiterType, Head(ts), maxRequests)
       IN <<c.result>> \o LocalTrace(c.map, clientIP, limiterType, Tail(ts), maxRequests)

\* the results of checkRedisRateLimit (lines 139-168, every command
\* resolving) for requests at the times ts, one after the other
RECURSIVE RemoteTrace(_, _, _, _, _)
RemoteTrace(store, clientIP, limiterType, ts, maxRequests) ==
  IF ts = <<>> THEN <<>>
  ELSE LET t == Head(ts)
           redisKey == RedisKey(limiterType, clientIP)
           inc == RedisIncr(store, redisKey, t)
           after == IF NeedsExpire(inc.value)
                    THEN RedisExpire(inc.store, redisKey, REDIS_TTL_SECONDS, t)
                    ELSE inc.store
       IN <<RedisDecision(inc.value, maxRequests, t, t)>>
            \o RemoteTrace(after, clientIP, limiterType, Tail(ts), maxRequests)

\* the same trace given to the two backends, each starting empty
ApplyBackends(maxRequests, ts) ==
  /\ applied' = [fn |-> "backends", limit |-> maxRequests, times |-> ts,
                 local |-> LocalTrace(<<>>, <<"1">>, "processing", ts, maxRequests),
                 remote |-> RemoteTrace(<<>>, <<"1">>, "processing", ts, maxRequests)]
  /\ UNCHANGED progVars

NextFunctions ==
  \/ \E req \in ResolverInputs : ApplyExtractClientIP(req)
  \/ \E ip \in IdentityInputs : ApplySanitizeIP(ip)
  \/ \E lt \in {"processing", "health"}, ip \in IdentityInputs : ApplyRedisKey(lt, ip)
  \/ \E mx \in LimitValues, ts \in WindowTraces : ApplyBackends(mx, ts)

\* ------------------------------------------ the handlers of the process routes
\* a JSON number of the request body
Num(n) == [kind |-> "number", val |-> n]
\* truthiness of a body field: undefined, a string or a number
BodyTruthy(v) == \/ v.kind = "number" /\ v.val # 0
                 \/ Truthy(v)
\* parseInt(v, 10) of a body field; a whole number parses to itself
ParseBodyInt(v) == IF v.kind = "number" THEN [nan |-> FALSE, val |-> v.val] ELSE ParseInt(v)

\* the chunkHeight fields of the request bodies
TenThousand == <<"1", "0", "0", "0", "0">>
TenThousandOne == <<"1", "0", "0", "0", "1">>
ChunkHeightInputs ==
  {Absent} \cup { Num(n) : n \in (0 - 1)..(MaxHeight + 1) }
           \cup { Num(MAX_CHUNK_HEIGHT), Num(MAX_CHUNK_HEIGHT + 1) }
           \cup { Str(t) : t \in {<<>>, <<"0">>, <<"2">>, <<"a">>, <<"-", "1">>, <<"3", "a">>,
                                  TenThousand, TenThousandOne} }
\* the url field: missing, not an http(s) URL, or one
UrlInputs == {"missing", "invalid", "ok"}
ImageHeights == 1..MaxHeight

\* a height test without the upper bound
ChunkHeightAcceptedNoUpper(height) == ~(height.nan \/ height.val <= 0)
\* lines 102-105 and 161-164 of the server: the parsed chunk height passes
ChunkHeightAccepted(height) ==
  ~(height.nan \/ height.val <= 0 \/ height.val > MAX_CHUNK_HEIGHT)

\* a chunk height that is not cut down at the end of the image
ActualChunkHeightUnclamped(targetChunkHeight, height, currentY) == targetChunkHeight
\* Math.min(targetChunkHeight, height - currentY)
ActualChunkHeight(targetChunkHeight, height, currentY) ==
  Min(targetChunkHeight, height - currentY)

BadRequest(route, chunkHeight) ==
  [fn |-> "process", route |-> route, chunkHeight |-> chunkHeight, pc |-> "rejected",
   status |-> STATUS_BAD_REQUEST]

\* the handler of POST /api/ui/process and of POST /api/v1/process up to the
\* call of splitImageApi, and the first lines of splitImageApi for an image
\* of height h that loads (no resizeWidth in the body)
ProcessRequest(route, url, chunkHeight, h) ==
  /\ applied.fn = "process" => applied.pc # "loop"
  /\ applied' =
       IF route = "ui" /\ ~Truthy(env.API_KEY)
       THEN [fn |-> "process", route |-> route, chunkHeight |-> chunkHeight,
             pc |-> "rejected", status |-> 500]
       ELSE IF url = "missing" \/ ~BodyTruthy(chunkHeight) THEN BadRequest(route, chunkHeight)
       ELSE IF url = "invalid" THEN BadRequest(route, chunkHeight)
       ELSE IF ~ChunkHeightAccepted(ParseBodyInt(chunkHeight))
       THEN BadRequest(route, chunkHeight)
       ELSE [fn |-> "process", route |-> route, chunkHeight |-> chunkHeight, pc |-> "loop",
             status |-> 0, height |-> h,
             targetChunkHeight |-> ParseBodyInt(chunkHeight).val,
             currentY |-> 0, chunkId |-> 0, chunks |-> <<>>, chunkCount |-> 0]
  /\ UNCHANGED progVars

\* one test of the while condition of splitImageApi: one more chunk, or the
\* result object and the 200 response
CropStep ==
  /\ applied.fn = "process" /\ applied.pc = "loop"
  /\ applied' =
       IF applied.currentY < applied.height
       THEN LET actualChunkHeight ==
                  ActualChunkHeight(applied.targetChunkHeight, applied.height, applied.currentY)
            IN [applied EXCEPT
                  !.chunks = Append(@, [id |-> applied.chunkId, height |-> actualChunkHeight,
                                        yOffset |-> applied.currentY]),
                  !.currentY = @ + actualChunkHeight,
                  !.chunkId = @ + 1]
       ELSE [applied EXCEPT !.pc = "done", !.status = 200, !.chunkCount = Len(applied.chunks)]
  /\ UNCHANGED progVars

NextProcess ==
  \/ \E route \in {"ui", "v1"}, url \in UrlInputs, chunkHeight \in ChunkHeightInputs,
        h \in ImageHeights : ProcessRequest(route, url, chunkHeight, h)
  \/ CropStep

InitFunctions ==
  InitFor({ReqA("ui")}, {e \in EnvsClients : ~e.UPSTASH_REDIS_REST_URL}, 1)
SpecFunctions == InitFunctions /\ [][NextFunctions]_vars

\* the handlers of the process routes, one request at a time
SpecProcess == InitFunctions /\ [][NextProcess]_vars
\* the crop loop is synchronous code between awaits that settle: a loop that
\* can go on does go on
CropRuns == WF_vars(CropStep)
SpecProcessLive == InitFunctions /\ [][NextProcess]_vars /\ CropRuns

\* one client on the three routes, one request at a time, and a call of
\* clearAllLimits
SpecClear == InitRoutes /\ [][NextClear]_vars

\* the dynamic import of the client library settles; nothing makes a call
\* to the remote store settle, and the code sets no timer on one
ImportSettles == WF_vars(\E s \in Slots : ImportOk(s) \/ ImportFail(s))
SpecLive == Init /\ [][Next]_vars /\ ImportSettles

TypeOK == /\ started \in 0..MaxRequests
          /\ ticks \in 0..MaxTicks
          /\ concurrency \in 1..MaxInFlight

\* ------------------------------------------------------------ properties
IsDecided == resp.kind = "decided"
Forwarded(o) == o.nextCalls = 1 /\ o.status # STATUS_TOO_MANY
Rejected(o) == o.status = STATUS_TOO_MANY
\* two decisions agree in what the client is told
SameDecision(a, b) == /\ a.allowed = b.allowed
                      /\ a.remaining = b.remaining
                      /\ a.resetTime = b.resetTime

\* C1: with a limit >= 1, each of the first `limit` requests of a window of a
\* counter is allowed: the gate calls next() and sends no 429, in the
\* in-memory backend and in the Redis backend.
C1_FirstLimitAllowed ==
  (IsDecided /\ resp.limit >= 1 /\ resp.ord <= resp.limit)
    => (resp.result.allowed /\ Forwarded(resp.out))

\* the last request of a quota of 2 has just been let through by Redis
C1_Witness ==
  /\ IsDecided /\ resp.backend = "remote" /\ resp.limit = 2 /\ resp.ord = 2
  /\ resp.result.allowed /\ Forwarded(resp.out)

\* the same in the in-memory backend
C1_WitnessLocal ==
  /\ IsDecided /\ resp.backend = "local" /\ resp.limit = 2 /\ resp.ord = 2
  /\ resp.result.allowed /\ Forwarded(resp.out)

\* C2: request number limit + 1 of a window and every later request of that
\* window is denied with HTTP 429, in both backends.
C2_OverLimitDenied ==
  (IsDecided /\ resp.ord > resp.limit)
    => (~resp.result.allowed /\ Rejected(resp.out) /\ resp.out.nextCalls = 0)

\* C3: the decision, remaining and reset values an identity gets are those it
\* would get if no other identity had sent a request.
C3_IdentityIsolation ==
  IsDecided => SameDecision(resp.result, resp.resultId)

\* the identities other than ip that have sent a request
OtherIdentities(ip) == DOMAIN isoId \ {ip}

\* C3 as amended: the same, in the in-memory backend for all identities and
\* in the Redis backend when no other identity has the same sanitized form.
C3_IsolationUnlessSameSanitizedIP ==
  (/\ IsDecided
   /\ resp.backend = "remote" =>
        \A j \in OtherIdentities(resp.ip) : sanitizeIP(j) # sanitizeIP(resp.ip))
    => SameDecision(resp.result, resp.resultId)

\* Redis denies a client its second request while another client, with a
\* different sanitized IP, has a counter in Redis as well
C3_Witness ==
  /\ IsDecided /\ resp.backend = "remote" /\ ~resp.result.allowed
  /\ \A j \in OtherIdentities(resp.ip) : sanitizeIP(j) # sanitizeIP(resp.ip)
  /\ \E j \in OtherIdentities(resp.ip) : isoId[j].redis # <<>>
  /\ SameDecision(resp.result, resp.resultId)

\* C4: the decision and the remaining value a request gets in one namespace
\* are those it would get if no request had been made in the other namespace.
C4_NamespaceIsolation ==
  IsDecided => /\ resp.result.allowed = resp.resultNs.allowed
               /\ resp.result.remaining = resp.resultNs.remaining

\* a processing request is denied while the same client has health requests
\* counted in the same backend
C4_Witness ==
  /\ IsDecided /\ resp.limiterType = "processing" /\ ~resp.result.allowed
  /\ "health" \in DOMAIN isoNs
  /\ IF resp.backend = "remote" THEN isoNs["health"].redis # <<>>
     ELSE isoNs["health"].mem # <<>>
  /\ ~resp.resultNs.allowed

\* C5: /api/ui/process and /api/v1/process consume one counter: in a window at
\* most `limit` requests of the two routes together are forwarded, and request
\* limit + 1 is denied whichever route it uses.
C5_SharedProcessingQuota ==
  (IsDecided /\ resp.limiterType = "processing")
    => /\ resp.allowedInWindow <= resp.limit
       /\ resp.ord > resp.limit => (~resp.result.allowed /\ Rejected(resp.out))

\* C6: after the reset time of a window has passed, the next `limit` requests
\* of the identity are allowed, whatever it did in the window before.
C6_FullQuotaAfterReset ==
  (IsDecided /\ resp.win >= 2 /\ resp.ord <= resp.limit)
    => (resp.result.allowed /\ Forwarded(resp.out))

\* the quota of a second window is used up to its last request, after a
\* window in which the client was denied
C6_Witness ==
  /\ IsDecided /\ resp.win >= 2 /\ resp.ord = resp.limit
  /\ resp.prevOrd > resp.limit /\ resp.limit >= 1
  /\ resp.result.allowed

C8_RejectShortCircuits ==
  (IsDecided /\ ~resp.result.allowed)
    => /\ resp.out.status = STATUS_TOO_MANY
       /\ Len(resp.out.body) = 1
       /\ DOMAIN resp.out.body[1] = {"error", "retryAfter"}
       /\ resp.out.body[1].retryAfter = resp.result.retryAfter[1]
       /\ resp.out.nextCalls = 0

\* a request has been rejected
C8_Witness == IsDecided /\ ~resp.result.allowed /\ resp.out.status = STATUS_TOO_MANY

\* C9: every response of a gated route carries X-RateLimit-Limit,
\* X-RateLimit-Remaining and X-RateLimit-Reset, on every path through the
\* gate; Retry-After is set on the rejected ones and only on those.
C9_HeadersOnEveryPath ==
  resp.kind # "none" =>
    /\ {"X-RateLimit-Limit", "X-RateLimit-Remaining", "X-RateLimit-Reset"}
         \subseteq DOMAIN resp.out.headers
    /\ ("Retry-After" \in DOMAIN resp.out.headers) <=> Rejected(resp.out)

\* C10: the retry hint of every denied request, in the body and in the
\* Retry-After header, is an integer >= 1.
C10_RetryAfterAtLeastOne ==
  (IsDecided /\ ~resp.result.allowed)
    => /\ resp.out.headers["Retry-After"] >= 1
       /\ resp.out.body[1].retryAfter >= 1

\* C11: on every denied decision the retry hint is
\* ceil((resetTime - now) / 1000) for the reset time of the same decision, in
\* the in-memory backend and in the Redis backend.
C11_RetryAfterMatchesReset ==
  (IsDecided /\ ~resp.result.allowed)
    => resp.result.retryAfter[1]
         = CeilDiv(resp.result.resetTime - resp.at, MS_PER_SECOND)

\* the request suspended in a slot has been answered by the gate
AnsweredFrom(s) ==
  /\ slots'[s].pc = "idle"
  /\ resp'.kind = "decided"
  /\ resp'.ip = slots[s].ip /\ resp'.route = slots[s].req.route
  /\ resp'.backend = "local"
  /\ resp'.out.status \in {0, STATUS_TOO_MANY}

\* C12: when incr or expire rejects, the gate sets useRedis to false and the
\* request that made the call is decided by the in-memory backend: allowed or
\* answered 429, never an error and never left undecided.
C12_RemoteErrorFallsBack ==
  [][remote'.errors > remote.errors
       => /\ ~useRedis'
          /\ \E s \in Slots : slots[s].pc \in {"incr", "expire"} /\ AnsweredFrom(s)]_vars

\* the first in-memory decision of a counter, taken for a request whose
\* Redis command was rejected
C12_Witness ==
  /\ remote.errors = 1 /\ ~useRedis /\ redisClient
  /\ IsDecided /\ resp.backend = "local" /\ resp.ord = 1 /\ resp.win = 1

\* C13: with Redis configured and every call to it failing, request n of a
\* window of one identity is allowed exactly when n <= limit, so that of N
\* requests min(N, limit) are allowed and the others denied, sequentially
\* and with overlapping requests.
C13_FallbackBurstExact ==
  (RedisConfigured /\ ~remote.succeeded /\ IsDecided)
    => /\ resp.backend = "local"
       /\ resp.result.allowed <=> resp.ord <= resp.limit
       /\ resp.allowedInWindow = Min(resp.ord, resp.limit)

\* C14: with a limit >= 1, also after a rejected Redis command has moved the
\* gate to the in-memory backend, at most `limit` requests of one identity in
\* one namespace are allowed within one window.
C14_AtMostLimitAcrossDowngrade ==
  DowngradedIn(remote) =>
    \A k \in DOMAIN gGate :
      MaxRequestsOf(k[1]) >= 1 => gGate[k].allowed <= MaxRequestsOf(k[1])

\* C15: once a rejected Redis command has set useRedis to false it stays
\* false, and a request that enters the gate afterwards is decided by the
\* in-memory backend at once, without a call to Redis.
C15_ModeOneDirectional ==
  [][DowngradedIn(remote)
       => /\ ~useRedis /\ ~useRedis'
          /\ started' > started
               => /\ slots' = slots
                  /\ remote' = remote
                  /\ (resp' # resp /\ resp'.kind = "decided")
                       => resp'.backend = "local"]_vars

\* three requests have entered the gate and one Redis command was rejected;
\* the in-memory backend has decided the third request of its window, which
\* entered the gate after the downgrade
C15_Witness ==
  /\ remote.errors = 1 /\ ~useRedis /\ started = 3
  /\ IsDecided /\ resp.backend = "local" /\ resp.ord = 3 /\ resp.win = 1

\* the requests suspended inside initializeRedis()
Probing == { s \in Slots : slots[s].pc \in {"import", "ping"} }

\* C16: the client library is imported and the ping sent at most once per
\* process, whatever the number and the interleaving of the requests; after
\* the probe has settled no request probes again.
C16_ProbeAtMostOnce ==
  /\ remote.setups <= 1 /\ remote.pings <= 1
  /\ Cardinality(Probing) <= 1
  /\ remote.probe # "none" => Probing = {}

\* a second request has been decided while the first is waiting for the ping
C16_Witness ==
  /\ remote.pings = 1 /\ \E s \in Slots : slots[s].pc = "ping"
  /\ started >= 2 /\ IsDecided

\* C17: when the ping resolves useRedis is true; when the import, the
\* constructor or the ping fails useRedis is false and the request that
\* probed is decided by the in-memory backend (forwarded by the catch block
\* when its identity cannot be read): the failure is not passed on.
C17_ProbeOutcomeSetsMode ==
  [][(remote.probe = "none" /\ remote'.probe # "none")
       => \E s \in Probing :
            IF remote'.probe = "ok"
            THEN useRedis' /\ redisClient'
            ELSE /\ ~useRedis'
                 /\ slots'[s].pc = "idle"
                 /\ IF extractClientIP(slots[s].req).threw
                    THEN resp'.kind = "failopen"
                    ELSE /\ resp'.kind = "decided" /\ resp'.backend = "local"
                         /\ resp'.route = slots[s].req.route
                 /\ resp'.out.status \in {0, STATUS_TOO_MANY}]_vars

\* the probe failed and the first request was decided in memory
C17_Witness ==
  /\ remote.probe = "failed" /\ remote.pings = 1 /\ started = 1 /\ ~useRedis
  /\ IsDecided /\ resp.backend = "local" /\ resp.ord = 1

\* the ping resolved
C17_WitnessOk == remote.probe = "ok" /\ useRedis /\ remote.errors = 0

\* C18: when the URL or the token of Redis is not set, useRedis stays false
\* and no call is made to Redis: no import, no ping, no incr, no expire and
\* no get.
C18_NoRemoteCallWithoutConfig ==
  ~(env.UPSTASH_REDIS_REST_URL /\ env.UPSTASH_REDIS_REST_TOKEN)
    => /\ ~useRedis /\ ~redisClient
       /\ remote = NoCalls
       /\ redisStore = <<>>
       /\ \A s \in Slots : slots[s].pc = "idle"

\* only the URL is set: a request has been decided and the status read
C18_Witness ==
  /\ env.UPSTASH_REDIS_REST_URL /\ ~env.UPSTASH_REDIS_REST_TOKEN
  /\ IsDecided /\ resp.backend = "local" /\ status # NoStatus

\* C19: an error thrown while the gate identifies the client or decides is
\* caught: the request is forwarded to its handler, not answered by the gate.
C19_InternalErrorFailsOpen ==
  /\ resp.kind \in {"none", "decided", "failopen"}
  /\ resp.kind = "failopen"
       => /\ resp.out.nextCalls = 1
          /\ resp.out.status = 0
          /\ resp.out.body = <<>>

\* a request whose forwarding header cannot be split has been forwarded
C19_Witness == resp.kind = "failopen" /\ Forwarded(resp.out)

\* C20: every request that has entered the gate is eventually forwarded or
\* rejected, also when a call to Redis never returns.
C20_EveryRequestEnds ==
  \A s \in Slots : (slots[s].pc # "idle") ~> (slots[s].pc = "idle")


\* ---------------------------------------------------------------- identity
Resolved == applied.fn = "extractClientIP"
HeaderPresent(req) == req.xff.kind = "string" /\ req.xff.val # <<>>
Blank(h, a, b) == \A i \in a..b : h[i] \in WhiteSpace

\* out is the first comma-separated entry of h, surrounding whitespace removed
FirstEntryOf(h, out) ==
  \E n \in 0..Len(h) :
    /\ n = Len(h) \/ h[n + 1] = ","
    /\ \A i \in 1..n : h[i] # ","
    /\ \E a \in 0..n :
         /\ a + Len(out) <= n
         /\ SubSeq(h, a + 1, a + Len(out)) = out
         /\ Blank(h, 1, a) /\ Blank(h, a + Len(out) + 1, n)
    /\ out = <<>> \/ (out[1] \notin WhiteSpace /\ out[Len(out)] \notin WhiteSpace)

\* C25: the identity is the first comma-separated entry of the forwarding
\* header with surrounding whitespace removed when the header is present,
\* else the framework-reported address, else the socket address, else the
\* literal "unknown"
C25_IdentityPriority ==
  (Resolved /\ applied.arg.xff # NonString) =>
    LET req == applied.arg
        out == applied.out
    IN /\ ~out.threw
       /\ IF HeaderPresent(req) THEN FirstEntryOf(req.xff.val, out.ip)
          ELSE IF Truthy(req.ip) THEN out.ip = req.ip.val
          ELSE IF Truthy(req.remoteAddress) THEN out.ip = req.remoteAddress.val
          ELSE out.ip = <<"u", "n", "k", "n", "o", "w", "n">>

\* the header of scenario D resolves to "9.9.9.9" though req.ip is set
C25_Witness ==
  /\ Resolved /\ applied.arg.xff = Str(HeaderD) /\ Truthy(applied.arg.ip)
  /\ applied.out = [threw |-> FALSE, ip |-> <<"9", ".", "9", ".", "9", ".", "9">>]

\* C26 as the specification states it: identity resolution never throws and
\* always gives a non-empty string
C26_IdentityNeverEmpty ==
  Resolved => ~applied.out.threw /\ applied.out.ip # <<>>

Sanitized == applied.fn = "sanitizeIP"
KeyBuilt == applied.fn = "redisKey"
Separators == {":", "."}
HasSeparator(str) == \E i \in 1..Len(str) : str[i] \in Separators

\* C27: sanitizeIP replaces every ':' and '.' of the identity with '-' and
\* changes nothing else: same length, no ':' or '.', idempotent; and the key
\* of the remote store is built from the sanitized identity
C27_SanitizeReplacesSeparators ==
  /\ Sanitized =>
       LET ip == applied.arg
           out == applied.out
       IN /\ Len(out) = Len(ip)
          /\ ~HasSeparator(out)
          /\ \A i \in 1..Len(ip) : IF ip[i] \in Separators THEN out[i] = "-" ELSE out[i] = ip[i]
          /\ sanitizeIP(out) = out
  /\ KeyBuilt =>
       LET ident == SubSeq(applied.out, 5, Len(applied.out))
       IN /\ SubSeq(applied.out, 1, 4) = <<"ratelimit", ":", applied.limiterType, ":">>
          /\ Len(ident) = Len(applied.arg)
          /\ ~HasSeparator(ident)
          /\ \A i \in 1..Len(ident) :
               IF applied.arg[i] \in Separators THEN ident[i] = "-" ELSE ident[i] = applied.arg[i]

\* an identity with a colon and a dot is sanitized
C27_Witness ==
  /\ Sanitized /\ applied.arg = <<"1", ":", ".">> /\ applied.out = <<"1", "-", "-">>

\* ------------------------------------------------------ counters and windows
LocalDecided == IsDecided /\ resp.backend = "local"
RemoteDecided == IsDecided /\ resp.backend = "remote"
\* the in-memory entry and the remote key of the request last decided
EntryOfResp == inMemoryRateLimitMap[LimiterKey(resp.limiterType, resp.ip)]
KeyOfResp == RedisKey(resp.limiterType, resp.ip)

\* C21 as the specification states it: of the K requests of one identity and
\* namespace that the in-memory backend saw in one window, exactly
\* min(K, limit) were allowed and the stored count is min(K, limit)
C21_LocalExactlyMinAllowed ==
  LocalDecided =>
    /\ resp.allowedInWindow = Min(resp.ord, resp.limit)
    /\ EntryOfResp.count = Min(resp.ord, resp.limit)

\* C22 as the specification states it: an in-memory entry is expired as soon
\* as now >= resetAt, so no in-memory decision reports a reset time that is
\* not after the time of the request
C22_LocalExpiredAtReset ==
  LocalDecided => /\ resp.result.resetTime > resp.at
                  /\ EntryOfResp.resetTime > resp.at

\* the entry of <<lt, ip>> in the remote store, its expiry <<>> when unset
ExpiryOf(store, key) == IF key \in DOMAIN store THEN store[key].expiresAt ELSE <<>>

C24_LimitsPositive ==
  /\ PROCESSING_RATE_LIMIT_MAX_REQUESTS >= 1
  /\ HEALTH_CHECK_RATE_LIMIT_MAX_REQUESTS >= 1

C30_ResetIsActualReset ==
  /\ LocalDecided => resp.result.resetTime = EntryOfResp.resetTime
  /\ (RemoteDecided /\ ExpiryOf(redisStore, KeyOfResp) # <<>>) =>
       resp.result.resetTime = ExpiryOf(redisStore, KeyOfResp)[1]

\* ------------------------------------------------------ the gate and the key
Answered == resp.kind \in {"decided", "failopen"}

C32_NoCountBeforeSelection ==
  (remote.probe = "ok" /\ remote.errors = 0) =>
    /\ inMemoryRateLimitMap = <<>>
    /\ gLocal = <<>>

\* C33: each request that passes through the gate gets exactly one outcome:
\* next() is called once and no 429 is sent, or one 429 is sent and next() is
\* not called; on the success path, the fallback path and the fail-open path
C33_ExactlyOneOutcome ==
  Answered =>
    \/ resp.out.nextCalls = 1 /\ resp.out.status = 0 /\ resp.out.body = <<>>
    \/ resp.out.nextCalls = 0 /\ resp.out.status = STATUS_TOO_MANY /\ Len(resp.out.body) = 1

\* of two requests the one whose incr rejected has been answered 429 by the
\* in-memory backend, the other one having used up the limit in memory
C33_Witness ==
  /\ started = 2 /\ remote.errors = 1
  /\ LocalDecided /\ resp.limit >= 1 /\ Rejected(resp.out) /\ resp.out.nextCalls = 0
  /\ \A s \in Slots : slots[s].pc = "idle"

\* C34: with a limit >= 1 every in-memory entry has 1 <= count <= limit and
\* a resetTime of one window after the request that opened its window, and a
\* rejected request leaves the entry as it is
C34_LocalEntryBounds ==
  /\ [](\A k \in DOMAIN gLocal :
          MaxRequestsOf(k[1]) >= 1 =>
            LET entry == inMemoryRateLimitMap[LimiterKey(k[1], k[2])]
            IN /\ entry.count >= 1 /\ entry.count <= MaxRequestsOf(k[1])
               /\ entry.resetTime = gLocal[k].start + RATE_LIMIT_WINDOW)
  /\ [][(gLocal' # gLocal /\ resp'.kind = "decided" /\ ~resp'.result.allowed)
          => inMemoryRateLimitMap' = inMemoryRateLimitMap]_vars

\* a request rejected at the very end of its window: the entry is full and
\* keeps the reset time of the window
C34_Witness ==
  /\ LocalDecided /\ ~resp.result.allowed /\ resp.limit >= 1
  /\ resp.at = RATE_LIMIT_WINDOW
  /\ EntryOfResp = [count |-> resp.limit, resetTime |-> RATE_LIMIT_WINDOW]

\* C35 as the specification states it: a key of the remote store is without
\* an expiry only while the request whose increment created it is still
\* waiting for its expire command
C35_NoKeyWithoutExpiry ==
  \A key \in DOMAIN redisStore :
    ExpiryOf(redisStore, key) = <<>> =>
      \E s \in Slots :
        /\ slots[s].pc = "expire" /\ slots[s].count = 1
        /\ key = RedisKey(LimiterTypeOf(slots[s].req.route), slots[s].ip)

\* C36 as the specification states it: getRateLimitStatus(ip) does not throw
\* and returns a result with the count of ip and the configured limit
C36_StatusReportsUsage ==
  status # NoStatus =>
    /\ status.kind = "resolved"
    /\ {"count", "limit"} \subseteq DOMAIN status.value

\* ------------------------------------------------------- the two backends
\* C31 as the specification states it: for the same sequential trace of
\* requests of one identity in one window the two backends give the same
\* decisions and the same remaining values
C31_BackendsInterchangeable ==
  applied.fn = "backends" =>
    /\ Len(applied.local) = Len(applied.remote)
    /\ \A i \in 1..Len(applied.local) :
         /\ applied.local[i].allowed = applied.remote[i].allowed
         /\ Max(0, applied.local[i].remaining) = Max(0, applied.remote[i].remaining)

\* ------------------------------------------------------- the image chunks
Processing == applied.fn = "process"
Returned == Processing /\ applied.pc = "done"

\* C38: for an image of height H >= 1 and a chunk height T >= 1 the chunks
\* returned have the ids 0..k-1 in order and partition [0, H): the first
\* starts at 0, each starts where the one before ends, all but the last have
\* height T, the last has a height in 1..T, and chunkCount = k = ceil(H / T)
C38_ChunksPartitionImage ==
  Returned =>
    LET c == applied.chunks
        k == Len(c)
        H == applied.height
        T == applied.targetChunkHeight
    IN /\ applied.chunkCount = k
       /\ (k - 1) * T < H /\ H <= k * T
       /\ \A i \in 1..k :
            /\ c[i].id = i - 1
            /\ c[i].yOffset = (IF i = 1 THEN 0 ELSE c[i - 1].yOffset + c[i - 1].height)
            /\ i < k => c[i].height = T
       /\ c[k].height >= 1 /\ c[k].height <= T
       /\ c[k].yOffset + c[k].height = H

\* an image of height 5 cut into chunks of 2: three chunks, the last of height 1
C38_Witness ==
  /\ Returned /\ applied.height = 5 /\ applied.chunkHeight = Num(2)
  /\ applied.chunkCount = 3 /\ applied.chunks[3] = [id |-> 2, height |-> 1, yOffset |-> 4]

\* the chunkHeight fields that are missing, not a number, <= 0 or > 10000
BadChunkHeight(v) ==
  \/ v = Absent
  \/ v.kind = "number" /\ (v.val <= 0 \/ v.val > 10000)
  \/ v.kind = "string" /\ v.val \notin {<<"2">>, <<"3", "a">>, TenThousand}

\* C39: both process routes answer 400 to a chunkHeight that is missing, not
\* a number, <= 0 or > 10000 without calling splitImageApi, and for every
\* chunk height T they let through the crop loop ends after ceil(H / T)
\* iterations
C39_CropLoopTerminates ==
  /\ [](Processing =>
          /\ BadChunkHeight(applied.chunkHeight) =>
               applied.pc = "rejected" /\ applied.status = STATUS_BAD_REQUEST
          /\ applied.pc # "rejected" =>
               /\ applied.targetChunkHeight >= 1 /\ applied.targetChunkHeight <= 10000
               /\ (applied.chunkId - 1) * applied.targetChunkHeight < applied.height)
  /\ (Processing /\ applied.pc = "loop")
       ~> (Returned /\ (applied.chunkId - 1) * applied.targetChunkHeight < applied.height
                    /\ applied.height <= applied.chunkId * applied.targetChunkHeight)

\* a request of the authenticated route with chunkHeight "2" and an image of
\* height 5 has been answered after three iterations
C39_Witness ==
  /\ Returned /\ applied.route = "v1" /\ applied.chunkHeight = Str(<<"2">>)
  /\ applied.height = 5 /\ applied.chunkId = 3 /\ applied.status = 200

\* ------------------------------------------------------------ clearing
\* the next request of ip in the namespace lt would be the first of a window
FullQuota(lt, ip, useR, client, mem, store, t) ==
  IF useR /\ client
  THEN RedisIncr(store, RedisKey(lt, ip), t).value = 1
  ELSE LET r == checkInMemoryRateLimit(mem, ip, lt, t, MaxRequestsOf(lt)).result
       IN r.allowed /\ r.remaining = MaxRequestsOf(lt) - 1

\* C37 as the specification states it: after clearAllLimits() every identity
\* has a full quota in both namespaces, and the backend mode, the initialised
\* flag and the remote client are as before
C37_ClearAllLimitsClears ==
  [][(applied = NotApplied /\ applied'.fn = "clearAllLimits") =>
       /\ \A lt \in {"processing", "health"}, ip \in ClientIPs :
            FullQuota(lt, ip, useRedis', redisClient', inMemoryRateLimitMap', redisStore', now')
       /\ UNCHANGED modeVars]_vars
====
